---- MODULE Spec2Model ----
(***************************************************************************)
(* The social graph and feed engine of app/services/social_service.py:     *)
(* SocialService over the tables of app/models/social.py.                  *)
(*                                                                         *)
(* The persistent state is the committed content of the connections,      *)
(* posts, likes and comments tables.  Every SocialService call runs in a   *)
(* session; a call that reads and then writes (send_connection_request,    *)
(* respond_to_connection, like_post) is two steps, the SELECT and the      *)
(* commit, so that calls of different sessions can interleave between      *)
(* them.  A persistence step (execute, get, commit, refresh) can raise;    *)
(* the except block of the method rolls back and returns None or [].       *)
(*                                                                         *)
(* Spec runs the calls on connections, posts and the feed one after the    *)
(* other; RaceSpec interleaves the steps of the calls that write           *)
(* connections; EngageSpec runs the calls on posts, likes and comments one *)
(* after the other; LikeRaceSpec interleaves the steps of like_post;       *)
(* AllSpec runs the calls of all nine operations one after the other on    *)
(* tables of at most MaxRows rows in total; CountSpec adds the post cards  *)
(* that show the counts to EngageSpec; InboxSpec runs the connection calls *)
(* and the inbox read for a directory of one user more; DirectorySpec      *)
(* sends requests to any addressee id; UiSpec lets the browser clients log *)
(* in and out of the one AppState and press the buttons of the pages.      *)
(***************************************************************************)
EXTENDS Integers, Sequences, FiniteSets, TLC

\* ---- bounds of the model
NumUsers == 2
NumSessions == 2
MaxConnections == 2
MaxPosts == 2
MaxTime == 1
MaxLikes == 2
MaxComments == 2
MaxRows == 2
NumClients == 2

\* default page size of get_feed (skip = 0, limit = 20)
FeedLimitDefault == 20

UserIds == 1..NumUsers
Sessions == 1..NumSessions
Clients == 1..NumClients
\* state.current_user = None
NoUser == 0
ConnectionIds == 1..MaxConnections
PostIds == 1..MaxPosts
Times == 0..MaxTime
\* ConnectionCreate.message is Optional[str]: None or a text
Messages == {"None", "hi"}
Skips == {0, 1}
Limits == {1, FeedLimitDefault}

\* ConnectionStatus
PENDING == "pending"
ACCEPTED == "accepted"
DECLINED == "declined"
ConnectionStatus == {PENDING, ACCEPTED, DECLINED}

VARIABLES
    connections,  \* table connections: row id |-> [requester_id, addressee_id, status, message]
    posts,        \* table posts: row id |-> [user_id, created_at]
    likes,        \* table likes: <<user_id, post_id>> |-> number of rows
    comments,     \* table comments: row id |-> [user_id, post_id]
    loaded,       \* per session: post id |-> <<like_count, comment_count>> of the
                  \* Post object's loaded collections, <<>> when expired or never loaded
    current_user, \* state.current_user of the pages: a user id, or NoUser
    client_user,  \* per browser client: the user who logged in on it, or NoUser
    pc,           \* per session: where its current call stands
    args,         \* per session: arguments and loaded row of the call in progress
    ret           \* what the step just taken returned to its caller (NoRet: nothing)

vars == <<connections, posts, likes, comments, loaded, current_user, client_user, pc, args, ret>>

NoArgs == [op |-> "none"]
NoRet == [op |-> "none", kind |-> "none", val |-> <<>>, log |-> "none"]

\* a call returning None
ReturnNone(op, log) == [op |-> op, kind |-> "None", val |-> <<>>, log |-> log]
\* a call returning the row with the given id
ReturnRow(op, id) == [op |-> op, kind |-> "row", val |-> <<id>>, log |-> "info"]
\* a call returning a list of rows
ReturnList(op, ids, log) == [op |-> op, kind |-> "list", val |-> ids, log |-> log]

\* a method without the try/except: the exception reaches the caller
on_exception_reraise(op) == [op |-> op, kind |-> "raised", val |-> <<>>, log |-> "none"]

\* the except block of a writing method: log the error, roll back, return None
on_exception(op) == ReturnNone(op, "error")

\* a session that keeps its loaded objects over commit and rollback
expire_none(cache) == cache

\* Session.commit and Session.rollback expire every object the session holds
expire(cache) == [post \in DOMAIN cache |-> <<>>]

\* the loaded objects after a commit or rollback of session p
Expired(p) == [loaded EXCEPT ![p] = expire(@)]

\* how add/commit/refresh can end: all three succeed, the commit raises
\* (nothing is written), or the refresh after the commit raises
WriteOutcomes == {"ok", "commit_raises", "refresh_raises"}

Init ==
    /\ connections = <<>>
    /\ posts = <<>>
    /\ likes = [k \in UserIds \X PostIds |-> 0]
    /\ comments = <<>>
    /\ loaded = [p \in Sessions |-> [post \in PostIds |-> <<>>]]
    /\ current_user = NoUser
    /\ client_user = [c \in Clients |-> NoUser]
    /\ pc = [p \in Sessions |-> "idle"]
    /\ args = [p \in Sessions |-> NoArgs]
    /\ ret = NoRet

\* ---- send_connection_request

\* a SELECT that looks for the pair in the direction of the request only
find_pair_one_way(requester_id, addressee_id) ==
    {i \in DOMAIN connections :
        /\ connections[i].requester_id = requester_id
        /\ connections[i].addressee_id = addressee_id}

\* the SELECT of send_connection_request: rows of the pair in either direction
find_pair(requester_id, addressee_id) ==
    {i \in DOMAIN connections :
        \/ /\ connections[i].requester_id = requester_id
           /\ connections[i].addressee_id = addressee_id
        \/ /\ connections[i].requester_id = addressee_id
           /\ connections[i].addressee_id = requester_id}

\* inserts that sessions have decided on and not yet committed
PendingInserts == Cardinality({q \in Sessions : pc[q] = "send_insert"})

\* an existence check that lets a declined pair be requested again
send_check_reopen(requester_id, addressee_id, db_ok) ==
    LET open == {i \in find_pair(requester_id, addressee_id) :
                    connections[i].status # DECLINED} IN
    IF ~db_ok \/ Cardinality(open) > 1 THEN "raise"
    ELSE IF open # {} THEN "exists"
    ELSE "insert"

\* what the existence check of send_connection_request decides:
\* "raise" (execute failed, or scalar_one_or_none found several rows),
\* "exists" (one row) or "insert" (no row)
send_check(requester_id, addressee_id, db_ok) ==
    IF ~db_ok \/ Cardinality(find_pair(requester_id, addressee_id)) > 1 THEN "raise"
    ELSE IF find_pair(requester_id, addressee_id) # {} THEN "exists"
    ELSE "insert"

SendCheck(p, requester_id, addressee_id, message) ==
    /\ pc[p] = "idle"
    /\ \E db_ok \in BOOLEAN :
        LET d == send_check(requester_id, addressee_id, db_ok) IN
        /\ d = "insert" => Len(connections) + PendingInserts < MaxConnections
        /\ pc' = [pc EXCEPT ![p] = IF d = "insert" THEN "send_insert" ELSE "idle"]
        /\ args' = [args EXCEPT ![p] =
                IF d = "insert"
                THEN [op |-> "send_connection_request", requester_id |-> requester_id,
                      addressee_id |-> addressee_id, message |-> message]
                ELSE NoArgs]
        /\ ret' = IF d = "raise" THEN on_exception("send_connection_request")
                  ELSE IF d = "exists" THEN ReturnNone("send_connection_request", "warning")
                  ELSE NoRet
        /\ loaded' = IF d = "raise" THEN Expired(p) ELSE loaded
    /\ UNCHANGED <<connections, posts, likes, comments, current_user, client_user>>

\* a row that is stored as accepted at once
new_connection_accepted(a) ==
    [requester_id |-> a.requester_id, addressee_id |-> a.addressee_id,
     status |-> ACCEPTED, message |-> a.message]

\* the row send_connection_request adds
new_connection(a) ==
    [requester_id |-> a.requester_id, addressee_id |-> a.addressee_id,
     status |-> PENDING, message |-> a.message]

\* an insert that overwrites the newest row instead of adding one
inserted_over(tbl, row) ==
    IF tbl = <<>> THEN <<row>> ELSE [tbl EXCEPT ![Len(tbl)] = row]

\* db.add and db.commit of a new row: the table with the row added under the next id
inserted(tbl, row) == Append(tbl, row)

SendCommit(p) ==
    /\ pc[p] = "send_insert"
    /\ \E w \in WriteOutcomes :
        /\ connections' = IF w = "commit_raises" THEN connections
                          ELSE inserted(connections, new_connection(args[p]))
        /\ ret' = IF w = "ok"
                  THEN ReturnRow("send_connection_request", Len(connections) + 1)
                  ELSE on_exception("send_connection_request")
    /\ pc' = [pc EXCEPT ![p] = "idle"]
    /\ args' = [args EXCEPT ![p] = NoArgs]
    /\ loaded' = Expired(p)
    /\ UNCHANGED <<posts, likes, comments, current_user, client_user>>

\* ---- respond_to_connection

\* a check that lets either party of the connection respond
respond_check_party(connection_id, user_id, db_ok) ==
    IF ~db_ok THEN "raise"
    ELSE IF connection_id \notin DOMAIN connections THEN "invalid"
    ELSE IF /\ connections[connection_id].addressee_id # user_id
            /\ connections[connection_id].requester_id # user_id THEN "invalid"
    ELSE "update"

\* what the check of respond_to_connection decides
respond_check(connection_id, user_id, db_ok) ==
    IF ~db_ok THEN "raise"
    ELSE IF connection_id \notin DOMAIN connections THEN "invalid"
    ELSE IF connections[connection_id].addressee_id # user_id THEN "invalid"
    ELSE "update"

\* what respond_to_connection returns when its check has decided
respond_return(d) ==
    IF d = "raise" THEN on_exception("respond_to_connection")
    ELSE IF d = "invalid" THEN ReturnNone("respond_to_connection", "warning")
    ELSE NoRet

RespondGet(p, connection_id, user_id, accept) ==
    /\ pc[p] = "idle"
    /\ \E db_ok \in BOOLEAN :
        LET d == respond_check(connection_id, user_id, db_ok) IN
        /\ pc' = [pc EXCEPT ![p] = IF d = "update" THEN "respond_commit" ELSE "idle"]
        /\ args' = [args EXCEPT ![p] =
                IF d = "update"
                THEN [op |-> "respond_to_connection", connection_id |-> connection_id,
                      user_id |-> user_id, accept |-> accept,
                      loaded_status |-> connections[connection_id].status]
                ELSE NoArgs]
        /\ ret' = respond_return(d)
        /\ loaded' = IF d = "raise" THEN Expired(p) ELSE loaded
    /\ UNCHANGED <<connections, posts, likes, comments, current_user, client_user>>

\* the status respond_to_connection assigns
new_status(accept) == IF accept THEN ACCEPTED ELSE DECLINED

\* an update that also clears the message of the request
responded_clear_message(row, accept) ==
    [row EXCEPT !.status = new_status(accept), !.message = "None"]

\* the row after respond_to_connection's assignment
responded(row, accept) == [row EXCEPT !.status = new_status(accept)]

RespondCommit(p) ==
    /\ pc[p] = "respond_commit"
    /\ \E w \in WriteOutcomes :
        /\ connections' = IF w = "commit_raises" THEN connections
                          ELSE [connections EXCEPT ![args[p].connection_id] =
                                    responded(@, args[p].accept)]
        /\ ret' = IF w = "ok"
                  THEN ReturnRow("respond_to_connection", args[p].connection_id)
                  ELSE on_exception("respond_to_connection")
    /\ pc' = [pc EXCEPT ![p] = "idle"]
    /\ args' = [args EXCEPT ![p] = NoArgs]
    /\ loaded' = Expired(p)
    /\ UNCHANGED <<posts, likes, comments, current_user, client_user>>

\* ---- get_user_connections

\* a SELECT without the status condition
accepted_of_any_status(user_id) ==
    {i \in DOMAIN connections :
        connections[i].requester_id = user_id \/ connections[i].addressee_id = user_id}

\* a SELECT that finds the accepted rows on the requester side only
accepted_of_requester(user_id) ==
    {i \in DOMAIN connections :
        /\ connections[i].requester_id = user_id
        /\ connections[i].status = ACCEPTED}

\* the rows get_user_connections selects
accepted_of(user_id) ==
    {i \in DOMAIN connections :
        /\ connections[i].requester_id = user_id \/ connections[i].addressee_id = user_id
        /\ connections[i].status = ACCEPTED}

\* the sequences that list the elements of S once each
Orderings(S) ==
    {s \in [1..Cardinality(S) -> S] : \A i, j \in 1..Cardinality(S) : i # j => s[i] # s[j]}

\* the lists get_user_connections can return: no ORDER BY, any order; [] on an exception
get_user_connections(user_id, db_ok) ==
    IF db_ok THEN Orderings(accepted_of(user_id)) ELSE {<<>>}

GetUserConnections(p, user_id) ==
    /\ pc[p] = "idle"
    /\ \E db_ok \in BOOLEAN :
       \E result \in get_user_connections(user_id, db_ok) :
           ret' = ReturnList("get_user_connections", result,
                             IF db_ok THEN "none" ELSE "error")
    /\ UNCHANGED <<connections, posts, likes, comments, loaded, current_user, client_user,
                   pc, args>>

\* ---- create_post

\* func.now() at the insert: the clock does not run backwards
Now == {t \in Times : \A i \in DOMAIN posts : posts[i].created_at <= t}

CreatePost(p, user_id) ==
    /\ pc[p] = "idle"
    /\ \E w \in WriteOutcomes :
        IF w = "commit_raises"
        THEN /\ posts' = posts
             /\ ret' = on_exception("create_post")
        ELSE \E t \in Now :
             /\ Len(posts) < MaxPosts
             /\ posts' = Append(posts, [user_id |-> user_id, created_at |-> t])
             /\ ret' = IF w = "ok" THEN ReturnRow("create_post", Len(posts) + 1)
                       ELSE on_exception("create_post")
    /\ loaded' = Expired(p)
    /\ UNCHANGED <<connections, likes, comments, current_user, client_user, pc, args>>

\* ---- get_feed

\* a resolution that takes the addressee whoever asks
other_side_addressee(conn, user_id) == conn.addressee_id

\* the other side of a connection, as get_feed resolves it
other_side(conn, user_id) ==
    IF conn.requester_id = user_id THEN conn.addressee_id ELSE conn.requester_id

\* the users get_feed's loop collects from the list get_user_connections returned
others(conns, user_id) ==
    {other_side(connections[conns[k]], user_id) : k \in DOMAIN conns}

\* an audience that leaves the connections out
connected_user_ids_self(conns, user_id) == {user_id}

\* connected_user_ids of get_feed: the loop's users and the user's own id
connected_user_ids(conns, user_id) == others(conns, user_id) \cup {user_id}

\* the posts the feed query selects
feed_posts(audience) == {i \in DOMAIN posts : posts[i].user_id \in audience}

\* ORDER BY created_at DESC: rows with equal created_at come in any order
feed_orders(audience) ==
    {s \in Orderings(feed_posts(audience)) :
        \A i, j \in DOMAIN s : i < j => posts[s[i]].created_at >= posts[s[j]].created_at}

\* OFFSET skip LIMIT limit
page(s, skip, limit) ==
    [k \in 1..(IF Len(s) - skip < 0 THEN 0
               ELSE IF Len(s) - skip < limit THEN Len(s) - skip ELSE limit) |-> s[skip + k]]

\* the lists get_feed can return
get_feed(user_id, skip, limit, conns_ok, posts_ok) ==
    IF ~posts_ok THEN {<<>>}
    ELSE UNION {{page(s, skip, limit) : s \in feed_orders(connected_user_ids(conns, user_id))} :
                    conns \in get_user_connections(user_id, conns_ok)}

\* get_feed(user_id), as the pages call it: skip and limit at their defaults
GetFeed(p, user_id) ==
    /\ pc[p] = "idle"
    /\ \E conns_ok, posts_ok \in BOOLEAN :
       \E result \in get_feed(user_id, 0, FeedLimitDefault, conns_ok, posts_ok) :
           ret' = ReturnList("get_feed", result,
                             IF conns_ok /\ posts_ok THEN "none" ELSE "error")
    /\ UNCHANGED <<connections, posts, likes, comments, loaded, current_user, client_user,
                   pc, args>>

\* ---- get_pending_requests

\* the rows get_pending_requests selects
pending_of(user_id) ==
    {i \in DOMAIN connections :
        /\ connections[i].addressee_id = user_id
        /\ connections[i].status = PENDING}

\* the lists get_pending_requests can return: no ORDER BY, any order; [] on an exception
get_pending_requests(user_id, db_ok) ==
    IF db_ok THEN Orderings(pending_of(user_id)) ELSE {<<>>}

GetPendingRequests(p, user_id) ==
    /\ pc[p] = "idle"
    /\ \E db_ok \in BOOLEAN :
       \E result \in get_pending_requests(user_id, db_ok) :
           ret' = ReturnList("get_pending_requests", result,
                             IF db_ok THEN "none" ELSE "error")
    /\ UNCHANGED <<connections, posts, likes, comments, loaded, current_user, client_user,
                   pc, args>>

\* ---- get_user_posts

\* the lists get_user_posts can return: the user's posts, ORDER BY created_at DESC,
\* OFFSET skip LIMIT limit; [] on an exception
get_user_posts(user_id, skip, limit, db_ok) ==
    IF db_ok THEN {page(s, skip, limit) : s \in feed_orders({user_id})} ELSE {<<>>}

\* get_user_posts(user_id): skip and limit at their defaults
GetUserPosts(p, user_id) ==
    /\ pc[p] = "idle"
    /\ \E db_ok \in BOOLEAN :
       \E result \in get_user_posts(user_id, 0, FeedLimitDefault, db_ok) :
           ret' = ReturnList("get_user_posts", result,
                             IF db_ok THEN "none" ELSE "error")
    /\ UNCHANGED <<connections, posts, likes, comments, loaded, current_user, client_user,
                   pc, args>>

\* ---- like_post

RECURSIVE Sum(_, _)
\* the sum of f over the set S
Sum(f, S) == IF S = {} THEN 0
             ELSE LET x == CHOOSE y \in S : TRUE IN f[x] + Sum(f, S \ {x})

\* the number of rows of the likes table
LikeRows == Sum(likes, UserIds \X PostIds)

\* Post.like_count: the number of Like rows of the post
like_count(tbl, post_id) == Sum(tbl, {k \in UserIds \X PostIds : k[2] = post_id})

\* inserts of likes that sessions have decided on and not yet committed
PendingLikes == Cardinality({q \in Sessions : pc[q] = "like_insert"})

\* a check that finds no earlier like, so that every call adds one
like_check_add_only(tbl, user_id, post_id, db_ok) ==
    IF ~db_ok \/ tbl[<<user_id, post_id>>] > 1 THEN "raise" ELSE "insert"

\* what the check of like_post decides on the table tbl:
\* "raise" (execute failed, or scalar_one_or_none found several rows),
\* "delete" (one row: unlike) or "insert" (no row: like)
like_check(tbl, user_id, post_id, db_ok) ==
    IF ~db_ok \/ tbl[<<user_id, post_id>>] > 1 THEN "raise"
    ELSE IF tbl[<<user_id, post_id>>] = 1 THEN "delete"
    ELSE "insert"

\* the Like like_post returns (its id is left out)
ReturnLike(user_id, post_id) ==
    [op |-> "like_post", kind |-> "row", val |-> <<user_id, post_id>>, log |-> "info"]

LikeCheck(p, user_id, post_id) ==
    /\ pc[p] = "idle"
    /\ \E db_ok \in BOOLEAN :
        LET d == like_check(likes, user_id, post_id, db_ok) IN
        /\ d = "insert" => LikeRows + PendingLikes < MaxLikes
        /\ pc' = [pc EXCEPT ![p] = IF d = "raise" THEN "idle" ELSE "like_" \o d]
        /\ args' = [args EXCEPT ![p] =
                IF d = "raise" THEN NoArgs
                ELSE [op |-> "like_post", user_id |-> user_id, post_id |-> post_id]]
        /\ ret' = IF d = "raise" THEN on_exception("like_post") ELSE NoRet
        /\ loaded' = IF d = "raise" THEN Expired(p) ELSE loaded
    /\ UNCHANGED <<connections, posts, likes, comments, current_user, client_user>>

\* the likes table with one row of the pair more
like_added(tbl, user_id, post_id) == [tbl EXCEPT ![<<user_id, post_id>>] = @ + 1]

\* an unlike that leaves the row in the table
like_deleted_keep(tbl, user_id, post_id) == tbl

\* a DELETE without the user condition: every like of the post goes
like_deleted_of_post(tbl, user_id, post_id) ==
    [k \in DOMAIN tbl |-> IF k[2] = post_id THEN 0 ELSE tbl[k]]

\* the likes table with one row of the pair less
like_deleted(tbl, user_id, post_id) == [tbl EXCEPT ![<<user_id, post_id>>] = @ - 1]

\* the commit of like_post.  Unlike: the DELETE of the loaded row raises when
\* the row is gone, or the commit raises; else the row is deleted and the call
\* returns None.  Like: add, commit, refresh.
LikeCommit(p) ==
    /\ pc[p] \in {"like_insert", "like_delete"}
    /\ LET u == args[p].user_id
           post == args[p].post_id IN
       IF pc[p] = "like_delete"
       THEN \E db_ok \in BOOLEAN :
            IF db_ok /\ likes[<<u, post>>] > 0
            THEN /\ likes' = like_deleted(likes, u, post)
                 /\ ret' = ReturnNone("like_post", "info")
            ELSE /\ likes' = likes
                 /\ ret' = on_exception("like_post")
       ELSE \E w \in WriteOutcomes :
            /\ likes' = IF w = "commit_raises" THEN likes ELSE like_added(likes, u, post)
            /\ ret' = IF w = "ok" THEN ReturnLike(u, post) ELSE on_exception("like_post")
    /\ pc' = [pc EXCEPT ![p] = "idle"]
    /\ args' = [args EXCEPT ![p] = NoArgs]
    /\ loaded' = Expired(p)
    /\ UNCHANGED <<connections, posts, comments, current_user, client_user>>

\* ---- comment_on_post

\* comment_on_post: add, commit, refresh; the post is not looked up, and the
\* default SQLite database does not enforce the foreign key
CommentOnPost(p, user_id, post_id) ==
    /\ pc[p] = "idle"
    /\ \E w \in WriteOutcomes :
        IF w = "commit_raises"
        THEN /\ comments' = comments
             /\ ret' = on_exception("comment_on_post")
        ELSE /\ Len(comments) < MaxComments
             /\ comments' = Append(comments, [user_id |-> user_id, post_id |-> post_id])
             /\ ret' = IF w = "ok" THEN ReturnRow("comment_on_post", Len(comments) + 1)
                       ELSE on_exception("comment_on_post")
    /\ loaded' = Expired(p)
    /\ UNCHANGED <<connections, posts, likes, current_user, client_user, pc, args>>

\* ---- Post.like_count and Post.comment_count

\* Post.comment_count: the number of Comment rows of the post
comment_count(tbl, post_id) == Cardinality({i \in DOMAIN tbl : tbl[i].post_id = post_id})

\* a post card reads post.like_count and post.comment_count: the collections
\* of the Post object are loaded from the tables when the object is expired,
\* and their lengths are shown
PostCounts(p, post_id) ==
    /\ pc[p] = "idle"
    /\ post_id \in DOMAIN posts
    /\ LET counts == IF loaded[p][post_id] = <<>>
                     THEN <<like_count(likes, post_id), comment_count(comments, post_id)>>
                     ELSE loaded[p][post_id] IN
       /\ loaded' = [loaded EXCEPT ![p][post_id] = counts]
       /\ ret' = [op |-> "post_counts", kind |-> "counts",
                  val |-> <<post_id>> \o counts, log |-> "none"]
    /\ UNCHANGED <<connections, posts, likes, comments, current_user, client_user, pc, args>>

\* ---- the pages: one process-wide AppState for every browser client

\* handle_login on client c: state.login(user)
Login(c, u) ==
    /\ current_user' = u
    /\ client_user' = [client_user EXCEPT ![c] = u]
    /\ UNCHANGED <<connections, posts, likes, comments, loaded, pc, args, ret>>

\* handle_logout on client c, from the navbar of a page: state.logout()
Logout(c) ==
    /\ current_user # NoUser
    /\ current_user' = NoUser
    /\ client_user' = [client_user EXCEPT ![c] = NoUser]
    /\ UNCHANGED <<connections, posts, likes, comments, loaded, pc, args, ret>>

\* the Post button on client c
UiCreatePost(c) ==
    /\ current_user # NoUser
    /\ CreatePost(1, current_user)

\* the Like button of a post card on client c
UiLike(c, post_id) ==
    /\ current_user # NoUser
    /\ post_id \in DOMAIN posts
    /\ LikeCheck(1, current_user, post_id)

\* the comment dialog of a post card on client c
UiComment(c, post_id) ==
    /\ current_user # NoUser
    /\ post_id \in DOMAIN posts
    /\ CommentOnPost(1, current_user, post_id)

\* the Connect button of a suggested user on client c: ConnectionCreate without message
UiSend(c, addressee_id) ==
    /\ current_user # NoUser
    /\ SendCheck(1, current_user, addressee_id, "None")

\* the Accept and Decline buttons of a pending request on client c
UiRespond(c, connection_id, accept) ==
    /\ current_user # NoUser
    /\ connection_id \in DOMAIN connections
    /\ RespondGet(1, connection_id, current_user, accept)

\* ---- the system

ConnectionStep(p) ==
    \/ \E a, b \in UserIds, m \in Messages : SendCheck(p, a, b, m)
    \/ SendCommit(p)
    \/ \E c \in ConnectionIds, u \in UserIds, acc \in BOOLEAN : RespondGet(p, c, u, acc)
    \/ RespondCommit(p)

Step(p) ==
    \/ ConnectionStep(p)
    \/ \E u \in UserIds : GetUserConnections(p, u)
    \/ \E u \in UserIds : CreatePost(p, u)
    \/ \E u \in UserIds : GetFeed(p, u)

\* calls do not overlap: one session makes the calls, each run to its end before
\* the next (a session keeps nothing from one call to the next)
Next == Step(1)

Spec == Init /\ [][Next]_vars

\* the calls that write connections, their SELECT and commit steps interleaved
RaceNext == \E p \in Sessions : ConnectionStep(p)

RaceSpec == Init /\ [][RaceNext]_vars

\* the steps of like_post
LikeStep(p) ==
    \/ \E u \in UserIds, post \in PostIds : LikeCheck(p, u, post)
    \/ LikeCommit(p)

\* the calls on posts, likes and comments, one after the other
EngageNext ==
    \/ \E u \in UserIds : CreatePost(1, u)
    \/ LikeStep(1)
    \/ \E u \in UserIds, post \in PostIds : CommentOnPost(1, u, post)

EngageSpec == Init /\ [][EngageNext]_vars

\* like_post calls of the sessions, their SELECT and commit steps interleaved
LikeRaceNext ==
    \/ \E p \in Sessions, u \in UserIds : CreatePost(p, u)
    \/ \E p \in Sessions : LikeStep(p)

LikeRaceSpec == Init /\ [][LikeRaceNext]_vars

\* the calls on posts, likes and comments and the post cards that show the
\* counts, one after the other
CountNext ==
    \/ \E u \in UserIds : CreatePost(1, u)
    \/ \E u \in UserIds, post \in PostIds : LikeCheck(1, u, post)
    \/ LikeCommit(1)
    \/ \E u \in UserIds, post \in PostIds : CommentOnPost(1, u, post)
    \/ \E post \in PostIds : PostCounts(1, post)

CountSpec == Init /\ [][CountNext]_vars

\* the tables hold at most MaxRows rows in total
Small == Len(connections) + Len(posts) + LikeRows + Len(comments) <= MaxRows

\* the calls of all operations, one after the other, on small tables
AllNext ==
    \/ (\E a, b \in UserIds, m \in Messages : SendCheck(1, a, b, m)) /\ Small'
    \/ SendCommit(1) /\ Small'
    \/ (\E c \in ConnectionIds, u \in UserIds, acc \in BOOLEAN : RespondGet(1, c, u, acc)) /\ Small'
    \/ RespondCommit(1) /\ Small'
    \/ (\E u \in UserIds : GetUserConnections(1, u)) /\ Small'
    \/ (\E u \in UserIds : GetPendingRequests(1, u)) /\ Small'
    \/ (\E u \in UserIds : CreatePost(1, u)) /\ Small'
    \/ (\E u \in UserIds : GetUserPosts(1, u)) /\ Small'
    \/ (\E u \in UserIds : GetFeed(1, u)) /\ Small'
    \/ (\E u \in UserIds, post \in PostIds : LikeCheck(1, u, post)) /\ Small'
    \/ LikeCommit(1) /\ Small'
    \/ (\E u \in UserIds, post \in PostIds : CommentOnPost(1, u, post)) /\ Small'

AllSpec == Init /\ [][AllNext]_vars

\* a directory of one user more than UserIds: two users can write to a third
InboxUserIds == 1..(NumUsers + 1)

\* requests between distinct users of the larger directory, the answers to
\* them and the inbox reads, one call after the other
InboxNext ==
    \/ \E a, b \in InboxUserIds, m \in Messages : a # b /\ SendCheck(1, a, b, m)
    \/ SendCommit(1)
    \/ \E c \in ConnectionIds, u \in InboxUserIds, acc \in BOOLEAN : RespondGet(1, c, u, acc)
    \/ RespondCommit(1)
    \/ \E u \in InboxUserIds : GetPendingRequests(1, u)

InboxSpec == Init /\ [][InboxNext]_vars

\* the browser clients log in and out and press the buttons of the pages; the
\* service calls run one after the other in the one session of AppState
UiNext ==
    \/ \E c \in Clients, u \in UserIds : Login(c, u)
    \/ \E c \in Clients : Logout(c)
    \/ (\E c \in Clients : UiCreatePost(c)) /\ Small'
    \/ (\E c \in Clients, post \in PostIds : UiLike(c, post)) /\ Small'
    \/ LikeCommit(1) /\ Small'
    \/ (\E c \in Clients, post \in PostIds : UiComment(c, post)) /\ Small'
    \/ (\E c \in Clients, u \in UserIds : UiSend(c, u)) /\ Small'
    \/ SendCommit(1) /\ Small'
    \/ (\E c \in Clients, k \in ConnectionIds, acc \in BOOLEAN : UiRespond(c, k, acc)) /\ Small'
    \/ RespondCommit(1) /\ Small'

UiSpec == Init /\ [][UiNext]_vars

\* the ids ConnectionCreate.addressee_id can carry: the ids of the users and
\* one id that no user has
AddresseeIds == UserIds \cup {NumUsers + 1}

\* requests of the users to any addressee_id and the answers to them, one call
\* after the other
DirectoryNext ==
    \/ \E a \in UserIds, b \in AddresseeIds, m \in Messages : SendCheck(1, a, b, m)
    \/ SendCommit(1)
    \/ \E c \in ConnectionIds, u \in UserIds, acc \in BOOLEAN : RespondGet(1, c, u, acc)
    \/ RespondCommit(1)

DirectorySpec == Init /\ [][DirectoryNext]_vars

\* ---- properties

\* the rows of the unordered pair {a, b}
PairRows(a, b) ==
    {i \in DOMAIN connections :
        {connections[i].requester_id, connections[i].addressee_id} = {a, b}}

IsReturn(r, op, kind) == r.op = op /\ r.kind = kind

\* C1: with calls that do not overlap, every reachable state holds at most one
\* Connection row for any unordered pair of users, in either direction and in
\* any status.
C1_OneRecordPerPair == \A a, b \in UserIds : Cardinality(PairRows(a, b)) <= 1

\* a request was refused as a duplicate while the table holds rows of two pairs,
\* one of them declined
C1_Witness ==
    /\ Len(connections) = 2
    /\ \E i \in DOMAIN connections : connections[i].status = DECLINED
    /\ IsReturn(ret, "send_connection_request", "None") /\ ret.log = "warning"

\* C2: when two send_connection_request calls for the same pair of users {a, b}
\* (a -> b twice, or a -> b and b -> a) interleave their existence check and
\* their insert, at most one of them succeeds and at most one Connection row of
\* the pair is stored (the second insert is refused at commit).
C2_RaceStoresOneRecord ==
    \A i, j \in DOMAIN connections :
        (i # j /\ connections[i].requester_id # connections[i].addressee_id) =>
            {connections[i].requester_id, connections[i].addressee_id}
                # {connections[j].requester_id, connections[j].addressee_id}

\* C3: once a row exists for the pair {a, b}, a # b, in any status, every
\* send_connection_request(a, b) and (b, a) returns None, adds no row and leaves
\* the table as it was.
C3_DuplicateRefused ==
    [][\A p \in Sessions, a, b \in UserIds, m \in Messages :
        (a # b /\ PairRows(a, b) # {} /\ SendCheck(p, a, b, m)) =>
            /\ IsReturn(ret', "send_connection_request", "None")
            /\ pc'[p] = "idle"
            /\ connections' = connections]_vars

\* a request was refused as a duplicate while the only row, between two different
\* users, is declined
C3_Witness ==
    /\ Len(connections) = 1
    /\ connections[1].requester_id # connections[1].addressee_id
    /\ connections[1].status = DECLINED
    /\ connections[1].message = "hi"
    /\ IsReturn(ret, "send_connection_request", "None") /\ ret.log = "warning"

\* C4: send_connection_request with requester_id = addressee_id stores nothing:
\* no reachable state holds a row whose requester_id equals its addressee_id.
C4_NoSelfConnection ==
    \A i \in DOMAIN connections :
        connections[i].requester_id # connections[i].addressee_id

\* C5: respond_to_connection by a user other than the row's addressee returns
\* None and leaves the table as it was; the status of a row changes only in the
\* commit of a respond_to_connection call made by its addressee.
C5_OnlyAddresseeResponds ==
    [][/\ \A p \in Sessions, c \in DOMAIN connections, u \in UserIds, acc \in BOOLEAN :
            (connections[c].addressee_id # u /\ RespondGet(p, c, u, acc)) =>
                /\ IsReturn(ret', "respond_to_connection", "None")
                /\ pc'[p] = "idle"
                /\ connections' = connections
       /\ \A c \in DOMAIN connections :
            connections'[c].status # connections[c].status =>
                \E p \in Sessions :
                    /\ pc[p] = "respond_commit" /\ pc'[p] = "idle"
                    /\ args[p].connection_id = c
                    /\ args[p].user_id = connections[c].addressee_id]_vars

\* a response was refused while every connection id is a row, all still pending:
\* the refused caller was not the addressee
C5_Witness ==
    /\ DOMAIN connections = ConnectionIds
    /\ \A c \in DOMAIN connections :
        /\ connections[c].status = PENDING
        /\ connections[c].requester_id # connections[c].addressee_id
    /\ IsReturn(ret, "respond_to_connection", "None") /\ ret.log = "warning"

\* a row between two different users (the rows the design admits)
Proper(c) == connections[c].requester_id # connections[c].addressee_id

\* C6: Accepted and Declined are terminal: no step changes the status of a row
\* that is Accepted or Declined (stated for the rows between two different users).
C6_TerminalStatus ==
    [][\A c \in DOMAIN connections :
        (Proper(c) /\ connections[c].status \in {ACCEPTED, DECLINED}) =>
            connections'[c].status = connections[c].status]_vars

\* C7: a respond_to_connection call by the addressee on a row that is no longer
\* Pending returns a failure (None), not the row, whether accept repeats or
\* reverses the earlier decision (stated for the rows between two different users).
C7_RespondTwiceFails ==
    [][\A p \in Sessions :
        (/\ pc[p] = "respond_commit" /\ pc'[p] = "idle"
         /\ Proper(args[p].connection_id)
         /\ args[p].loaded_status # PENDING) =>
            IsReturn(ret', "respond_to_connection", "None")]_vars

\* C8: of two respond_to_connection calls by the addressee that both loaded the
\* row Pending, one accepting and one declining, at most one succeeds: the call
\* that commits after the other has decided the row returns a failure and the
\* status stays the one the first call set.
C8_OneResponseWins ==
    [][\A p \in Sessions :
        (/\ pc[p] = "respond_commit" /\ pc'[p] = "idle"
         /\ Proper(args[p].connection_id)
         /\ args[p].loaded_status = PENDING
         /\ connections[args[p].connection_id].status
                \in ConnectionStatus \ {PENDING, new_status(args[p].accept)}) =>
            /\ IsReturn(ret', "respond_to_connection", "None")
            /\ connections' = connections]_vars

\* every accepted row is listed for both of its users, and resolves for each to
\* the other one
SymmetricAccepted ==
    \A c \in DOMAIN connections :
        connections[c].status = ACCEPTED =>
            LET a == connections[c].requester_id
                b == connections[c].addressee_id IN
            /\ \A l \in get_user_connections(a, TRUE) :
                /\ \E k \in DOMAIN l : l[k] = c
                /\ other_side(connections[c], a) = b
                /\ b \in others(l, a)
            /\ \A l \in get_user_connections(b, TRUE) :
                /\ \E k \in DOMAIN l : l[k] = c
                /\ other_side(connections[c], b) = a
                /\ a \in others(l, b)

\* C9: after send_connection_request(a, b) and a successful
\* respond_to_connection(conn, b, accept = true) the row is Accepted, and the
\* accepted connections are symmetric: those of a resolve to b and those of b
\* resolve to a, whoever sent the request.
C9_AcceptIsSymmetric ==
    [][/\ \A p \in Sessions :
            (/\ pc[p] = "respond_commit" /\ pc'[p] = "idle"
             /\ args[p].accept
             /\ IsReturn(ret', "respond_to_connection", "row")) =>
                connections'[args[p].connection_id].status = ACCEPTED
       /\ SymmetricAccepted']_vars

\* the addressee has just accepted a request between two different users
C9_Witness ==
    /\ IsReturn(ret, "respond_to_connection", "row")
    /\ LET c == connections[ret.val[1]] IN
        /\ c.status = ACCEPTED
        /\ c.requester_id # c.addressee_id
        /\ c.addressee_id \in others(<<ret.val[1]>>, c.requester_id)
        /\ c.requester_id \in others(<<ret.val[1]>>, c.addressee_id)

\* an accepted row joins u and v
Connected(u, v) ==
    \E c \in DOMAIN connections :
        /\ connections[c].status = ACCEPTED
        /\ {connections[c].requester_id, connections[c].addressee_id} = {u, v}

\* C10: in every reachable state get_feed(u) returns only posts whose author is
\* u or a user joined to u by an Accepted row (none by a user with no row, or
\* with only a Pending or Declined row); with no accepted connection and one
\* post by u, a feed whose queries succeed is exactly that post.
C10_FeedAudience ==
    \A u \in UserIds :
        /\ \A skip \in Skips, limit \in Limits, conns_ok, posts_ok \in BOOLEAN :
            \A feed \in get_feed(u, skip, limit, conns_ok, posts_ok) :
                \A k \in DOMAIN feed :
                    /\ feed[k] \in DOMAIN posts
                    /\ posts[feed[k]].user_id = u \/ Connected(u, posts[feed[k]].user_id)
        /\ \A i \in DOMAIN posts :
            (/\ \A v \in UserIds : ~Connected(u, v)
             /\ {j \in DOMAIN posts : posts[j].user_id = u} = {i}) =>
                get_feed(u, 0, FeedLimitDefault, TRUE, TRUE) = {<<i>>}

\* two users with a post each and a declined request between them: a feed was
\* returned and holds one post only
C10_Witness ==
    /\ Len(posts) = 2 /\ posts[1].user_id # posts[2].user_id
    /\ Len(connections) = 1 /\ connections[1].status = DECLINED
    /\ connections[1].requester_id # connections[1].addressee_id
    /\ ret.op = "get_feed" /\ ret.log = "none" /\ Len(ret.val) = 1

\* the posts a returned list holds
Listed(feed) == {feed[k] : k \in DOMAIN feed}

\* C11: once B has accepted A's request, every post of B is in the feed
\* get_feed(A) returns with a limit that covers all posts; while the request
\* stands declined, no post of B is in it.
C11_AcceptShowsDeclineHides ==
    \A c \in DOMAIN connections : \A i \in DOMAIN posts :
        LET A == connections[c].requester_id
            B == connections[c].addressee_id IN
        (A # B /\ posts[i].user_id = B) =>
            \A feed \in get_feed(A, 0, FeedLimitDefault, TRUE, TRUE) :
                /\ connections[c].status = ACCEPTED => i \in Listed(feed)
                /\ connections[c].status = DECLINED => i \notin Listed(feed)

\* B accepted A's request and has then created a post
C11_Witness ==
    /\ IsReturn(ret, "create_post", "row")
    /\ \E c \in DOMAIN connections :
        /\ Proper(c)
        /\ connections[c].status = ACCEPTED
        /\ posts[ret.val[1]].user_id = connections[c].addressee_id

\* C12: a like_post(U, P) call that ends without a storage error returns the
\* Like and adds one row when U had not liked P, and returns None (unliked)
\* and removes the row when U had; the like_post(U, P) call that follows it
\* takes the other branch and brings like_count of P back to its value
\* before the first call.
C12_ToggleTwice ==
    [][\A p \in Sessions :
        (LikeCommit(p) /\ ret'.log # "error") =>
            LET U == args[p].user_id
                P == args[p].post_id IN
            /\ likes[<<U, P>>] = 0 =>
                /\ ret' = ReturnLike(U, P)
                /\ like_count(likes', P) = like_count(likes, P) + 1
                /\ like_check(likes', U, P, TRUE) = "delete"
                /\ like_count(like_deleted(likes', U, P), P) = like_count(likes, P)
            /\ likes[<<U, P>>] = 1 =>
                /\ IsReturn(ret', "like_post", "None")
                /\ like_count(likes', P) = like_count(likes, P) - 1
                /\ like_check(likes', U, P, TRUE) = "insert"
                /\ like_count(like_added(likes', U, P), P) = like_count(likes, P)
            /\ likes[<<U, P>>] \in {0, 1}]_vars

\* a like has just been taken back: every post exists, no like is left
C12_Witness ==
    /\ ret = ReturnNone("like_post", "info")
    /\ Len(posts) = MaxPosts
    /\ LikeRows = 0

\* C13: with like_post calls that do not overlap, the likes table holds at
\* most one row for every (user_id, post_id).
C13_OneLikePerPair == \A k \in UserIds \X PostIds : likes[k] <= 1

\* a like has just been stored next to another one
C13_Witness ==
    /\ IsReturn(ret, "like_post", "row")
    /\ likes[ret.val] = 1
    /\ LikeRows = MaxLikes

\* C14: when like_post calls of two sessions interleave their check and
\* their write, the likes table never holds two rows for the same
\* (user_id, post_id) of an existing post.
C14_RaceKeepsOneLike ==
    \A k \in UserIds \X PostIds : k[2] \in DOMAIN posts => likes[k] <= 1

\* C15: every list get_feed returns is in descending created_at order and,
\* among posts of equal created_at, in descending post id order.
C15_FeedTieBreakById ==
    \A u \in UserIds : \A feed \in get_feed(u, 0, FeedLimitDefault, TRUE, TRUE) :
        \A i, j \in DOMAIN feed :
            i < j =>
                \/ posts[feed[i]].created_at > posts[feed[j]].created_at
                \/ /\ posts[feed[i]].created_at = posts[feed[j]].created_at
                   /\ feed[i] > feed[j]

\* what the caller receives of a return: the value, not the log line
Returned(r) == [kind |-> r.kind, val |-> r.val]

\* C16: respond_to_connection on a connection_id that does not exist returns
\* a failure that differs from the one it returns to a user who is not the
\* addressee and from the one it returns on a storage failure, and those two
\* differ from each other.
C16_FailureCausesDistinct ==
    \A c, c2 \in ConnectionIds : \A u, u2 \in UserIds :
        (/\ c \notin DOMAIN connections
         /\ c2 \in DOMAIN connections
         /\ connections[c2].requester_id # connections[c2].addressee_id
         /\ connections[c2].addressee_id # u2) =>
            LET not_found == Returned(respond_return(respond_check(c, u, TRUE)))
                unauthorized == Returned(respond_return(respond_check(c2, u2, TRUE)))
                storage == Returned(respond_return(respond_check(c, u, FALSE))) IN
            /\ not_found # unauthorized
            /\ not_found # storage
            /\ unauthorized # storage

\* C17: comment_on_post and like_post on a post_id that does not exist store
\* nothing: every row of comments and of likes refers to a row of posts.
C17_NoOrphans ==
    /\ \A i \in DOMAIN comments : comments[i].post_id \in DOMAIN posts
    /\ \A k \in UserIds \X PostIds : likes[k] > 0 => k[2] \in DOMAIN posts

C19_FailedCallStoresNothing ==
    [][(/\ ret'.log = "error"
        /\ ret'.op \in {"send_connection_request", "respond_to_connection",
                        "create_post", "like_post", "comment_on_post"}) =>
            <<connections, posts, likes, comments>>' = <<connections, posts, likes, comments>>]_vars

\* C20: every list get_pending_requests(U) returns when its query succeeds
\* holds exactly the rows with addressee_id U and status PENDING, once each:
\* no request sent by U, no accepted or declined row, and every pending
\* request addressed to U.
C20_PendingExact ==
    \A U \in UserIds : \A l \in get_pending_requests(U, TRUE) :
        /\ \A k \in DOMAIN l :
            /\ connections[l[k]].addressee_id = U
            /\ connections[l[k]].status = PENDING
            /\ connections[l[k]].requester_id # U
        /\ \A i \in DOMAIN connections :
            (connections[i].addressee_id = U /\ connections[i].status = PENDING) =>
                Cardinality({k \in DOMAIN l : l[k] = i}) = 1

\* the rows of the table that is the second argument extend those of the first
Keeps(old, new) == Len(new) >= Len(old) /\ \A i \in DOMAIN old : new[i] = old[i]

\* C21: a connections row is added only by the commit of send_connection_request
\* and changed only by the commit of respond_to_connection, and none is ever
\* removed; the steps of create_post, like_post, comment_on_post and of the
\* read operations leave the connections table as it is.
C21_ConnectionLifecycle ==
    [][/\ Len(connections') >= Len(connections)
       /\ Len(connections') # Len(connections) =>
            /\ Keeps(connections, connections')
            /\ Len(connections') = Len(connections) + 1
            /\ \E p \in Sessions : pc[p] = "send_insert" /\ pc'[p] = "idle"
       /\ (\E i \in DOMAIN connections : connections'[i] # connections[i]) =>
            /\ Len(connections') = Len(connections)
            /\ \E p \in Sessions : pc[p] = "respond_commit" /\ pc'[p] = "idle"
       /\ (\/ ret'.op \in {"create_post", "like_post", "comment_on_post",
                           "get_user_connections", "get_pending_requests",
                           "get_user_posts", "get_feed"}
           \/ \E p \in Sessions : pc[p] \in {"like_insert", "like_delete"}
                                    \/ pc'[p] \in {"like_insert", "like_delete"}) =>
            connections' = connections]_vars

\* a post has just been created next to a stored connection
C21_Witness ==
    /\ IsReturn(ret, "create_post", "row")
    /\ Len(connections) > 0

\* C22: a send_connection_request(requester, addressee, message) call that
\* succeeds adds exactly one row, with that requester_id, addressee_id and
\* message and with status PENDING, and returns it; the rows stored before
\* and the other tables are unchanged.
C22_SendAddsOnePending ==
    [][\A p \in Sessions :
        /\ (pc[p] = "idle" /\ pc'[p] = "send_insert") =>
            \A a, b \in UserIds, m \in Messages :
                SendCheck(p, a, b, m) =>
                    /\ args'[p].requester_id = a
                    /\ args'[p].addressee_id = b
                    /\ args'[p].message = m
        /\ (SendCommit(p) /\ ret'.kind = "row") =>
            /\ Len(connections') = Len(connections) + 1
            /\ Keeps(connections, connections')
            /\ connections'[Len(connections')] =
                    [requester_id |-> args[p].requester_id,
                     addressee_id |-> args[p].addressee_id,
                     status |-> PENDING, message |-> args[p].message]
            /\ ret'.val = <<Len(connections')>>
            /\ <<posts, likes, comments>>' = <<posts, likes, comments>>]_vars

\* a second request, with a message, has just been stored next to a post
C22_Witness ==
    /\ IsReturn(ret, "send_connection_request", "row")
    /\ ret.val = <<MaxConnections>>
    /\ connections[MaxConnections].message = "hi"
    /\ connections[MaxConnections].status = PENDING
    /\ Len(posts) > 0

\* C23: every list get_pending_requests(U) returns is newest-first: of two
\* rows in it, the one created later (the higher id) comes earlier.
C23_PendingNewestFirst ==
    \A U \in InboxUserIds : \A l \in get_pending_requests(U, TRUE) :
        \A i, j \in DOMAIN l : i < j => l[i] > l[j]

\* C24: get_feed(U, offset, limit) never returns more than limit posts, and
\* with no write in between the pages at different offsets (limit 1: offsets
\* 0, 1, ...) hold different posts: no post is repeated from page to page.
C24_PagesDisjoint ==
    \A U \in UserIds : \A o1, o2 \in 0..(MaxPosts - 1) :
        \A p1 \in get_feed(U, o1, 1, TRUE, TRUE) : \A p2 \in get_feed(U, o2, 1, TRUE, TRUE) :
            /\ Len(p1) <= 1
            /\ o1 # o2 => Listed(p1) \cap Listed(p2) = {}

\* the Like rows stored for the post, one element for each row
LikeRecords(post_id) ==
    {<<u, n>> \in UserIds \X (1..MaxLikes) : n <= likes[<<u, post_id>>]}

\* the Comment rows stored for the post
CommentRecords(post_id) == {i \in DOMAIN comments : comments[i].post_id = post_id}

\* C25: the like_count and the comment_count a post card shows equal the
\* numbers of Like and of Comment rows stored for the post, also when the
\* post was shown before and like_post or comment_on_post changed the rows
\* since; and the collections a session holds loaded are never out of date.
C25_CountsMatchRecords ==
    /\ ret.op = "post_counts" =>
        /\ ret.val[2] = Cardinality(LikeRecords(ret.val[1]))
        /\ ret.val[3] = Cardinality(CommentRecords(ret.val[1]))
    /\ \A post \in PostIds :
        loaded[1][post] # <<>> =>
            loaded[1][post] = <<Cardinality(LikeRecords(post)), Cardinality(CommentRecords(post))>>

\* a post with a like and a comment is shown with the counts 1 and 1
C25_Witness ==
    /\ ret.op = "post_counts"
    /\ ret.val[2] = 1
    /\ ret.val[3] = 1

\* C26: a respond_to_connection call that succeeds changes only the status
\* of the row it names: the requester_id, addressee_id and message of that
\* row, every other row of connections, and the posts, likes and comments
\* are as before.
C26_RespondChangesStatusOnly ==
    [][\A p \in Sessions :
        (RespondCommit(p) /\ ret'.kind = "row") =>
            LET c == args[p].connection_id IN
            /\ ret'.val = <<c>>
            /\ DOMAIN connections' = DOMAIN connections
            /\ connections'[c].status = new_status(args[p].accept)
            /\ connections'[c].requester_id = connections[c].requester_id
            /\ connections'[c].addressee_id = connections[c].addressee_id
            /\ connections'[c].message = connections[c].message
            /\ \A i \in DOMAIN connections : i # c => connections'[i] = connections[i]
            /\ <<posts, likes, comments>>' = <<posts, likes, comments>>]_vars

\* a request with a message has just been answered next to another stored row
C26_Witness ==
    /\ IsReturn(ret, "respond_to_connection", "row")
    /\ connections[ret.val[1]].message = "hi"
    /\ connections[ret.val[1]].status # PENDING
    /\ Len(connections) + Len(posts) + LikeRows + Len(comments) = MaxRows

\* the posts of author can be in get_feed(viewer): author is in the audience
\* the feed query of viewer selects by
Eligible(viewer, author) ==
    \E conns \in get_user_connections(viewer, TRUE) :
        author \in connected_user_ids(conns, viewer)

\* C27: for any two distinct users A and B, the posts of B are eligible for
\* get_feed(A) if and only if the posts of A are eligible for get_feed(B),
\* whoever of the two sent the request.
C27_VisibilitySymmetric ==
    \A A, B \in UserIds : A # B => (Eligible(A, B) <=> Eligible(B, A))

\* a feed has just been returned that holds a post of each side of an accepted request
C27_Witness ==
    /\ IsReturn(ret, "get_feed", "list")
    /\ \E c \in DOMAIN connections :
        /\ Proper(c)
        /\ connections[c].status = ACCEPTED
        /\ \E i, j \in Listed(ret.val) :
            /\ posts[i].user_id = connections[c].requester_id
            /\ posts[j].user_id = connections[c].addressee_id

\* C28: a like_post(U, P) call adds or removes at most one row, of the pair
\* (U, P): its check writes nothing, and its commit leaves the likes of
\* every other pair and the posts, comments and connections as they were.
C28_LikeTouchesOnePair ==
    [][\A p \in Sessions :
        /\ (pc[p] = "idle" /\ pc'[p] \in {"like_insert", "like_delete"}) =>
            <<connections, posts, likes, comments>>' = <<connections, posts, likes, comments>>
        /\ LikeCommit(p) =>
            LET U == args[p].user_id
                P == args[p].post_id IN
            /\ \A k \in UserIds \X PostIds : k # <<U, P>> => likes'[k] = likes[k]
            /\ likes'[<<U, P>>] \in {likes[<<U, P>>] - 1, likes[<<U, P>>], likes[<<U, P>>] + 1}
            /\ <<connections, posts, comments>>' = <<connections, posts, comments>>
        /\ (ret'.op = "like_post" /\ pc[p] = "idle" /\ \A q \in Sessions : pc'[q] = pc[q]) =>
            <<connections, posts, likes, comments>>' = <<connections, posts, likes, comments>>]_vars

\* a like has just been taken back while the like of another pair stays
C28_Witness ==
    /\ ret = ReturnNone("like_post", "info")
    /\ LikeRows = 1

\* C29: every action a client on which a user is logged in triggers is
\* performed for that user: the post or comment it stores has that user as
\* its author, and the like, request or answer it starts has that user as
\* its acting user, whatever logins and logouts other clients have made.
C29_ActsForOwnLogin ==
    [][\A c \in Clients :
        client_user[c] # NoUser =>
            /\ (UiCreatePost(c) /\ ret'.kind = "row") =>
                    posts'[Len(posts')].user_id = client_user[c]
            /\ \A post \in PostIds :
                /\ (UiComment(c, post) /\ ret'.kind = "row") =>
                        comments'[Len(comments')].user_id = client_user[c]
                /\ (UiLike(c, post) /\ pc'[1] # "idle") =>
                        args'[1].user_id = client_user[c]
            /\ \A u \in UserIds :
                (UiSend(c, u) /\ pc'[1] # "idle") => args'[1].requester_id = client_user[c]
            /\ \A k \in ConnectionIds, acc \in BOOLEAN :
                (UiRespond(c, k, acc) /\ pc'[1] # "idle") => args'[1].user_id = client_user[c]]_vars

\* C30: the requester_id and the addressee_id of every connections row are
\* ids of users: a request to an addressee_id no user has stores no row.
C30_PartiesExist ==
    \A i \in DOMAIN connections :
        /\ connections[i].requester_id \in UserIds
        /\ connections[i].addressee_id \in UserIds
====
